---- MODULE Spec2Model ----
(***************************************************************************)
(* Model of movies_cleaning.py: the cleaning pipeline clean_dataframe, the *)
(* per-cell conversions it applies, and the driver main / process_file.    *)
(*                                                                         *)
(* Three specifications share the module:                                  *)
(*   Spec       the driver: main enumerates the input folder and calls     *)
(*              process_file for every *.csv name (lines 147-201);         *)
(*   SpecClean  clean_dataframe, one action per stage, on a loaded table   *)
(*              (lines 40-121);                                            *)
(*   SpecCell   the YEAR and Gross conversions on one cell text            *)
(*              (lines 57-60 and 67-70).                                   *)
(*                                                                         *)
(* Numbers are exact rationals v/d (d > 0, lowest terms) where the program *)
(* uses float64; rounding is not modelled.  Texts are sequences of         *)
(* one-character strings.  The variable pandas3 is the installed pandas    *)
(* major version (>= 3 or not): the source pins none, and two library      *)
(* behaviours the code relies on differ between them.                      *)
(***************************************************************************)
EXTENDS Integers, Sequences, FiniteSets, TLC

VARIABLES
    pandas3,    \* BOOLEAN: pandas >= 3.0 is installed
    \* ---- SpecCell
    cellIn,     \* the cell as loaded
    cellOut,    \* the cell after the conversion
    cellPc,     \* "raw" | "year" | "gross"
    \* ---- SpecClean
    input,      \* the table as loaded by pd.read_csv (never changes)
    df,         \* the table being cleaned: a sequence of rows (column -> cell)
    cols,       \* df.columns
    dtype,      \* dtype of the columns no stage coerces (RATING, RunTime):
                \* "int64" | "float64" | "object"
    prev,       \* df as it was before the last stage ran
    rowid,      \* rowid[i] = index in input of row i of df
    stage,      \* the last stage of clean_dataframe that has run
    \* ---- Spec
    folder,     \* names in the input folder
    readable,   \* name -> BOOLEAN: pd.read_csv succeeds on it
    noPlot,     \* --no-plot
    now,        \* datetime.now(), in whole seconds
    runs,       \* number of times main has been started
    pc,         \* "idle" | "loop" | "done"
    todo,       \* sorted(os.listdir(uncleaned_folder))
    idx,        \* position of the for loop in todo
    cleaned,    \* the cleaned folder: set of [path, by] (file at path, written by call number by)
    calls,      \* history: one record per process_file invocation
    found,      \* main's local: some *.csv name was seen
    warned,     \* "No CSV files found" was logged by the last run
    escaped     \* an exception propagated out of main

cellVars == <<cellIn, cellOut, cellPc>>
cleanVars == <<input, df, cols, dtype, prev, rowid, stage>>
mainVars == <<folder, readable, noPlot, now, runs, pc, todo, idx, cleaned, calls, found,
             warned, escaped>>
vars == <<pandas3, cellVars, cleanVars, mainVars>>

---------------------------------------------------------------------------
(* Bounds *)

MaxLen == 5         \* longest cell text explored by SpecCell
MaxCells == 4       \* rows * columns of the loaded table in SpecClean
MaxRuns == 2        \* times main is started
MaxTime == 2        \* half seconds the clock may advance

---------------------------------------------------------------------------
(* Cells, texts and numbers *)

NL == "\n"

Digits == <<"0", "1", "2", "3", "4", "5", "6", "7", "8", "9">>

IsDigit(c) == \E i \in 1..10 : Digits[i] = c

DigitVal(c) == (CHOOSE i \in 1..10 : Digits[i] = c) - 1

RECURSIVE GCD(_, _)
GCD(a, b) == IF b = 0 THEN a ELSE GCD(b, a % b)

Abs(x) == IF x < 0 THEN -x ELSE x

NA == [k |-> "na", v |-> 0, d |-> 1, s |-> <<>>]

Str(t) == [k |-> "str", v |-> 0, d |-> 1, s |-> t]

\* the rational v/d in lowest terms
Num(v, d) ==
    LET g == GCD(Abs(v), d)
    IN  [k |-> "num", v |-> v \div g, d |-> d \div g, s |-> <<>>]

IsNA(c) == c.k = "na"

IsNum(c) == c.k = "num"

IsStr(c) == c.k = "str"

Less(a, b) == a.v * b.d < b.v * a.d

RECURSIVE Pow10(_)
Pow10(n) == IF n = 0 THEN 1 ELSE 10 * Pow10(n - 1)

RECURSIVE DigitsToInt(_)
DigitsToInt(t) ==
    IF t = <<>> THEN 0
    ELSE 10 * DigitsToInt(SubSeq(t, 1, Len(t) - 1)) + DigitVal(t[Len(t)])

\* Series.astype(str) on one cell: a text stays as it is; a missing cell
\* becomes the text "nan" before pandas 3 and stays missing from pandas 3 on.
AstypeStr(c) ==
    IF IsNA(c) THEN (IF pandas3 THEN NA ELSE Str(<<"n", "a", "n">>))
    ELSE c

\* pd.to_numeric(text, errors='coerce') on texts over digits, '.' and other
\* characters: an optional digit run, an optional '.', an optional digit
\* run, with at least one digit; anything else is NaN.
ToNumeric(c) ==
    IF ~IsStr(c) THEN c
    ELSE
        LET t == c.s
            dots == {i \in 1..Len(t) : t[i] = "."}
            ok == /\ \A i \in 1..Len(t) : IsDigit(t[i]) \/ t[i] = "."
                  /\ Cardinality(dots) <= 1
                  /\ \E i \in 1..Len(t) : IsDigit(t[i])
            dot == IF dots = {} THEN Len(t) + 1 ELSE CHOOSE i \in dots : TRUE
            whole == SubSeq(t, 1, dot - 1)
            frac == SubSeq(t, dot + 1, Len(t))
        IN  IF ok THEN Num(DigitsToInt(whole \o frac), Pow10(Len(frac))) ELSE NA

\* .str.replace('[^0-9.]', '', regex=True) on one cell (line 69): every
\* character that is no digit and no period is removed
RemoveNonNumeric(c) ==
    IF ~IsStr(c) THEN c
    ELSE Str(SelectSeq(c.s, LAMBDA ch : IsDigit(ch) \/ ch = "."))

\* .str.replace(',', '', regex=True) on one cell (line 64)
RemoveCommas(c) ==
    IF ~IsStr(c) THEN c
    ELSE Str(SelectSeq(c.s, LAMBDA ch : ch # ","))

\* Series.str.extract(r'(\d{4})') on one cell: the four characters at the
\* leftmost position where four digits stand in a row; NaN without one.
ExtractYear(c) ==
    IF ~IsStr(c) THEN NA
    ELSE
        LET t == c.s
            hits == {i \in 1..(Len(t) - 3) : \A j \in i..(i + 3) : IsDigit(t[j])}
        IN  IF hits = {} THEN NA
            ELSE LET i == CHOOSE h \in hits : \A g \in hits : h <= g
                 IN  Str(SubSeq(t, i, i + 3))

\* lines 58-60
YearCell(c) == ToNumeric(ExtractYear(AstypeStr(c)))

\* the earlier version of the stage: .fillna(0) after the coercion
GrossCellZeroFill(c) ==
    LET r == ToNumeric(RemoveNonNumeric(AstypeStr(c)))
    IN  IF IsNA(r) THEN Num(0, 1) ELSE r

\* lines 68-70
GrossCell(c) == ToNumeric(RemoveNonNumeric(AstypeStr(c)))

\* lines 63-65
VotesCell(c) == ToNumeric(RemoveCommas(AstypeStr(c)))

---------------------------------------------------------------------------
(* Text helpers *)

\* the characters the model uses, in increasing code-point order
AsciiOrder ==
    <<NL, " ", "$", ",", ".", "/", "0", "1", "2", "3", "4", "5", "6", "7", "8", "9",
      "A", "C", "D", "M", "N", "S", "T", "U", "V", "_",
      "a", "b", "c", "d", "e", "k", "l", "n", "o", "s", "t", "v", "w", "x">>

CodeOf(ch) == CHOOSE i \in 1..Len(AsciiOrder) : AsciiOrder[i] = ch

\* Python's str <: lexicographic by code point
RECURSIVE TextLess(_, _)
TextLess(a, b) ==
    IF b = <<>> THEN FALSE
    ELSE IF a = <<>> THEN TRUE
    ELSE IF a[1] # b[1] THEN CodeOf(a[1]) < CodeOf(b[1])
    ELSE TextLess(Tail(a), Tail(b))

IsSpace(ch) == ch \in {" ", NL}

\* str.strip()
RECURSIVE Strip(_)
Strip(t) ==
    IF t = <<>> THEN t
    ELSE IF IsSpace(t[1]) THEN Strip(Tail(t))
    ELSE IF IsSpace(t[Len(t)]) THEN Strip(SubSeq(t, 1, Len(t) - 1))
    ELSE t

\* .str.replace('\n', ' ', regex=True).str.strip() on one cell (line 55)
NormalizeText(c) ==
    IF ~IsStr(c) THEN c
    ELSE Str(Strip([i \in 1..Len(c.s) |-> IF c.s[i] = NL THEN " " ELSE c.s[i]]))

\* str(x): a missing cell prints as "nan"
PyStr(c) == IF IsStr(c) THEN c.s ELSE <<"n", "a", "n">>

\* len([s for s in str(x).split(',') if s.strip()])  (lines 93, 96)
RECURSIVE CountTokens(_, _)
CountTokens(t, seen) ==
    IF t = <<>> THEN (IF seen THEN 1 ELSE 0)
    ELSE IF t[1] = "," THEN (IF seen THEN 1 ELSE 0) + CountTokens(Tail(t), FALSE)
    ELSE CountTokens(Tail(t), seen \/ ~IsSpace(t[1]))

---------------------------------------------------------------------------
(* Column helpers: a table is a sequence of rows, a row a function from   *)
(* the present columns to cells                                           *)

TextCols == {"MOVIES", "GENRE", "ONE-LINE", "STARS"}

NumericCols == <<"RATING", "VOTES", "RunTime", "Gross">>

Columns == {"GENRE", "YEAR", "VOTES", "Gross", "RATING", "RunTime"}

Column(t, c) == [i \in 1..Len(t) |-> t[i][c]]

\* the table with column c replaced by the cells of col
SetColumn(t, c, col) == [i \in 1..Len(t) |-> [t[i] EXCEPT ![c] = col[i]]]

\* series.dropna()
DropNA(col) == SelectSeq(col, LAMBDA x : ~IsNA(x))

\* series.isna().sum()
CountNA(col) == Cardinality({i \in 1..Len(col) : IsNA(col[i])})

\* an object column: some cell is a text, so numeric reductions raise
HasText(col) == \E i \in 1..Len(col) : IsStr(col[i])

Add(a, b) == Num(a.v * b.d + b.v * a.d, a.d * b.d)

Sub(a, b) == Num(a.v * b.d - b.v * a.d, a.d * b.d)

\* a * p / q
Times(a, p, q) == Num(a.v * p, a.d * q)

\* the k-th smallest (k = 1 .. Len) of a sequence of numbers
OrderStat(xs, k) ==
    LET i == CHOOSE j \in 1..Len(xs) :
                /\ Cardinality({m \in 1..Len(xs) : Less(xs[m], xs[j])}) < k
                /\ k <= Cardinality({m \in 1..Len(xs) : ~Less(xs[j], xs[m])})
    IN  xs[i]

\* Series.median() of the non-missing values (xs non-empty)
Median(xs) ==
    LET n == Len(xs)
    IN  IF n % 2 = 1 THEN OrderStat(xs, (n + 1) \div 2)
        ELSE Times(Add(OrderStat(xs, n \div 2), OrderStat(xs, n \div 2 + 1)), 1, 2)

\* Series.quantile(0.99) of the non-missing values (xs non-empty): linear
\* interpolation at position 0.99 * (n - 1) of the sorted values
Quantile99(xs) ==
    LET n == Len(xs)
        lo == (99 * (n - 1)) \div 100
        fr == (99 * (n - 1)) % 100
        a == OrderStat(xs, lo + 1)
    IN  IF fr = 0 THEN a
        ELSE Add(a, Times(Sub(OrderStat(xs, lo + 2), a), fr, 100))

---------------------------------------------------------------------------
(* The stages of clean_dataframe, as functions of the table *)

\* drop_duplicates(keep='last'): the indices of the rows equal to no later row
KeptRowsLast(t) == SelectSeq([i \in 1..Len(t) |-> i],
                             LAMBDA i : \A j \in (i + 1)..Len(t) : t[j] # t[i])

\* df.drop_duplicates(): the indices of the rows equal to no earlier row
KeptRows(t) == SelectSeq([i \in 1..Len(t) |-> i],
                         LAMBDA i : \A j \in 1..(i - 1) : t[j] # t[i])

\* lines 45-48
DropDuplicates(t) == LET keep == KeptRows(t) IN [i \in 1..Len(keep) |-> t[keep[i]]]

\* lines 51-55, for the one text column c
CleanText(t, c) ==
    SetColumn(t, c, [i \in 1..Len(t) |-> NormalizeText(AstypeStr(t[i][c]))])

\* the result of fillna dropped: the series comes back as it was
safe_median_fill_unfilled(col) == col

\* lines 25-37: series.median() raises on an object column (caught, the
\* series is returned as it is); a NaN median returns the series as it is
safe_median_fill(col) ==
    IF HasText(col) THEN col
    ELSE IF DropNA(col) = <<>> THEN col
    ELSE LET median == Median(DropNA(col))
         IN  [i \in 1..Len(col) |-> IF IsNA(col[i]) THEN median ELSE col[i]]

\* lines 74-77
RECURSIVE ImputeFrom(_, _, _)
ImputeFrom(t, cs, k) ==
    IF k > Len(NumericCols) THEN t
    ELSE LET c == NumericCols[k]
         IN  ImputeFrom(IF c \in cs THEN SetColumn(t, c, safe_median_fill(Column(t, c)))
                        ELSE t, cs, k + 1)

\* Series.mode().iloc[0] of a column with a non-missing cell: the smallest
\* (as text) of the most frequent non-missing values
ModeOf(col) ==
    LET xs == DropNA(col)
        Count(x) == Cardinality({i \in 1..Len(xs) : xs[i] = x})
        best == {i \in 1..Len(xs) : \A j \in 1..Len(xs) : Count(xs[j]) <= Count(xs[i])}
        i == CHOOSE b \in best : \A o \in best : ~TextLess(xs[o].s, xs[b].s)
    IN  xs[i]

\* lines 80-86 (mode() does not raise on a column of texts, so the except
\* branch of lines 87-89 is never taken)
FillGenre(col) ==
    LET fill == IF DropNA(col) # <<>> THEN ModeOf(col)
                ELSE Str(<<"U", "n", "k", "n", "o", "w", "n">>)
    IN  [i \in 1..Len(col) |-> IF IsNA(col[i]) THEN fill ELSE col[i]]

\* lines 95-96
AddNumGenres(t, cs) ==
    [i \in 1..Len(t) |->
        [c \in cs \cup {"num_genres"} |->
            IF c = "num_genres" THEN Num(CountTokens(PyStr(t[i]["GENRE"]), FALSE), 1)
            ELSE t[i][c]]]

\* rows of the column above the threshold: df['RunTime'] > upper
AboveMask(col, upper) == {i \in 1..Len(col) : IsNum(col[i]) /\ Less(upper, col[i])}

\* lines 100-104: does the try block raise?  quantile raises on an object
\* column; from pandas 3 on, .loc assignment of a non-integral float into
\* an int64 column raises instead of upcasting the column.
ClipRaises(col, dt) ==
    \/ HasText(col)
    \/ LET upper == Quantile99(DropNA(col))
       IN  pandas3 /\ dt = "int64" /\ upper.d # 1 /\ AboveMask(col, upper) # {}

\* lines 99-104 on the RunTime column
ClipColumn(col, dt) ==
    IF DropNA(col) = <<>> \/ ClipRaises(col, dt) THEN col
    ELSE LET upper == Quantile99(DropNA(col))
         IN  [i \in 1..Len(col) |-> IF i \in AboveMask(col, upper) THEN upper ELSE col[i]]

\* MinMaxScaler().fit_transform on one column: (x - min) * scale with
\* scale = 1 / (max - min), or 1 when max = min; NaN is ignored by fit and
\* kept by transform
MinMax(col) ==
    LET xs == DropNA(col)
        mn == OrderStat(xs, 1)
        range == Sub(OrderStat(xs, Len(xs)), mn)
        Scaled(x) == LET y == Sub(x, mn)
                     IN  IF range.v = 0 THEN y ELSE Num(y.v * range.d, y.d * range.v)
    IN  [i \in 1..Len(col) |-> IF IsNA(col[i]) THEN col[i] ELSE Scaled(col[i])]

\* line 111
ValidCols(t, cs) ==
    {c \in cs : (\E k \in 1..Len(NumericCols) : NumericCols[k] = c)
                /\ DropNA(Column(t, c)) # <<>>}

\* line 114: df[valid_cols].astype(float) raises when a valid column holds
\* a text that is no number
ScaleRaises(t, cs) == \E c \in ValidCols(t, cs) : HasText(Column(t, c))

\* lines 107-118
ScaleTable(t, cs) ==
    IF ValidCols(t, cs) = {} \/ ScaleRaises(t, cs) THEN t
    ELSE [i \in 1..Len(t) |->
            [c \in cs |-> IF c \in ValidCols(t, cs) THEN MinMax(Column(t, c))[i]
                          ELSE t[i][c]]]

---------------------------------------------------------------------------
(* SpecCell: the YEAR and Gross conversions applied to one loaded cell *)

CellAlphabet == {"1", "2", ".", "$"}

RECURSIVE Texts(_)
Texts(n) ==
    IF n = 0 THEN {<<>>}
    ELSE LET shorter == Texts(n - 1)
         IN  shorter \cup {Append(t, ch) : t \in {u \in shorter : Len(u) = n - 1},
                                           ch \in CellAlphabet}

\* the other specifications' variables, at rest
CleanAtRest ==
    /\ input = <<>>
    /\ df = <<>>
    /\ cols = {}
    /\ dtype = <<>>
    /\ prev = <<>>
    /\ rowid = <<>>
    /\ stage = "none"

MainAtRest ==
    /\ folder = {}
    /\ readable = <<>>
    /\ noPlot = FALSE
    /\ now = 0
    /\ runs = 0
    /\ pc = "none"
    /\ todo = <<>>
    /\ idx = 0
    /\ cleaned = {}
    /\ calls = <<>>
    /\ found = FALSE
    /\ warned = FALSE
    /\ escaped = FALSE

CellAtRest ==
    /\ cellIn = NA
    /\ cellOut = NA
    /\ cellPc = "none"

InitCell ==
    /\ pandas3 \in BOOLEAN
    /\ cellIn \in {NA} \cup {Str(t) : t \in Texts(MaxLen)}
    /\ cellOut = NA
    /\ cellPc = "raw"
    /\ CleanAtRest
    /\ MainAtRest

\* df['YEAR'] = pd.to_numeric(df['YEAR'].astype(str).str.extract(r'(\d{4})'))
YearStep ==
    /\ cellPc = "raw"
    /\ cellOut' = YearCell(cellIn)
    /\ cellPc' = "year"
    /\ UNCHANGED <<pandas3, cellIn, cleanVars, mainVars>>

\* df['Gross'] = pd.to_numeric(df['Gross'].astype(str).str.replace('[^0-9.]', ''))
GrossStep ==
    /\ cellPc = "raw"
    /\ cellOut' = GrossCell(cellIn)
    /\ cellPc' = "gross"
    /\ UNCHANGED <<pandas3, cellIn, cleanVars, mainVars>>

NextCell == YearStep \/ GrossStep

SpecCell == InitCell /\ [][NextCell]_vars

---------------------------------------------------------------------------
(* Properties of the cell conversions (SpecCell) *)

\* positions where a maximal digit run of length exactly four starts
ExactFourRuns(t) ==
    {i \in 1..(Len(t) - 3) :
        /\ \A j \in i..(i + 3) : IsDigit(t[j])
        /\ (i = 1 \/ ~IsDigit(t[i - 1]))
        /\ (i + 4 > Len(t) \/ ~IsDigit(t[i + 4]))}

\* C7 (as stated): the cleaned YEAR cell is the integer formed by the first
\* run of exactly four consecutive digits of the cell's text, and is missing
\* when the text has no run of exactly four digits.
C7_YearExactlyFourDigits ==
    (cellPc = "year" /\ IsStr(cellIn)) =>
        LET runs4 == ExactFourRuns(cellIn.s)
        IN  IF runs4 = {} THEN cellOut = NA
            ELSE LET i == CHOOSE h \in runs4 : \A g \in runs4 : h <= g
                 IN  cellOut = Num(DigitsToInt(SubSeq(cellIn.s, i, i + 3)), 1)

\* the digits of a text, in order
DigitsOf(t) == SelectSeq(t, IsDigit)

\* number of characters of t that are digits and stand after a period
DigitsAfterPeriod(t) ==
    Cardinality({i \in 1..Len(t) : IsDigit(t[i]) /\ \E j \in 1..(i - 1) : t[j] = "."})

\* C8: the coerced Gross cell is missing exactly when the cell is missing
\* or its text, with everything but digits and periods removed, is no
\* number (no digit, or more than one period); otherwise it is the number
\* whose decimal digits are the digits of the text, with as many decimals
\* as digits follow the period.  It is never a 0 standing for "missing".
C8_GrossCoercion ==
    cellPc = "gross" =>
        IF IsNA(cellIn) THEN cellOut = NA
        ELSE LET t == cellIn.s
                 periods == Cardinality({i \in 1..Len(t) : t[i] = "."})
             IN  IF DigitsOf(t) = <<>> \/ periods > 1 THEN cellOut = NA
                 ELSE cellOut = Num(DigitsToInt(DigitsOf(t)), Pow10(DigitsAfterPeriod(t)))

\* C8 witness: the text "$1.2" was coerced to the number 1.2
C8_Witness ==
    /\ cellPc = "gross"
    /\ cellIn = Str(<<"$", "1", ".", "2">>)
    /\ cellOut = Num(6, 5)

---------------------------------------------------------------------------
(* SpecClean: clean_dataframe on a table loaded by pd.read_csv.  The       *)
(* columns MOVIES, ONE-LINE and STARS are left out of the tables explored: *)
(* they get the text stage of GENRE and feed nothing but num_stars.        *)
(* Cells of GENRE, YEAR, VOTES and Gross are the texts of the CSV file (a  *)
(* column pandas loads as numbers prints back to such texts under          *)
(* astype(str)); cells of RATING and RunTime, which no stage coerces, are  *)
(* numbers unless the column holds a text that is no number.               *)

CellDomain(c) ==
    CASE c = "GENRE"   -> <<NA, Str(<<"D">>), Str(<<"C">>), Str(<<"C", NL>>)>>
      [] c = "YEAR"    -> <<NA, Str(<<"1", "9", "9", "9">>),
                            Str(<<"2", "0", "1", "5", "5">>), Str(<<"T", "V">>)>>
      [] c = "VOTES"   -> <<NA, Str(<<"7">>), Str(<<"1", ",", "2">>), Str(<<"x">>)>>
      [] c = "Gross"   -> <<NA, Str(<<"$", "5">>), Str(<<"1", ".", "5", "M">>),
                            Str(<<"N", "/", "A">>)>>
      [] c = "RATING"  -> <<NA, Num(5, 1), Num(8, 1), Str(<<"x">>)>>
      [] c = "RunTime" -> <<NA, Num(90, 1), Num(120, 1), Str(<<"x">>)>>

CellChoices == Len(CellDomain("GENRE"))

\* the dtypes pd.read_csv can give a column of these cells
LoadedDtypes(col) ==
    IF col = <<>> \/ HasText(col) THEN {"object"}
    ELSE IF CountNA(col) > 0 THEN {"float64"}
    ELSE {"int64", "float64"}

RawNumeric == {"RATING", "RunTime"}

InitClean ==
    /\ pandas3 \in BOOLEAN
    /\ \E cs \in (SUBSET Columns) \ {{}} :
       \E r \in 0..(MaxCells \div Cardinality(cs)) :
       \E pick \in [1..r -> [cs -> 1..CellChoices]] :
          /\ cols = cs
          /\ input = [i \in 1..r |-> [c \in cs |-> CellDomain(c)[pick[i][c]]]]
    /\ df = input
    /\ prev = input
    /\ rowid = [i \in 1..Len(input) |-> i]
    /\ dtype \in {f \in [cols \cap RawNumeric -> {"int64", "float64", "object"}] :
                    \A c \in cols \cap RawNumeric : f[c] \in LoadedDtypes(Column(input, c))}
    /\ stage = "loaded"
    /\ CellAtRest
    /\ MainAtRest

\* lines 45-48
Dedup ==
    /\ stage = "loaded"
    /\ df' = DropDuplicates(df)
    /\ rowid' = KeptRows(df)
    /\ prev' = df
    /\ stage' = "dedup"
    /\ UNCHANGED <<pandas3, input, cols, dtype, cellVars, mainVars>>

\* lines 51-55
TextStage ==
    /\ stage = "dedup"
    /\ df' = IF "GENRE" \in cols /\ "GENRE" \in TextCols THEN CleanText(df, "GENRE") ELSE df
    /\ prev' = df
    /\ stage' = "text"
    /\ UNCHANGED <<pandas3, input, cols, dtype, rowid, cellVars, mainVars>>

\* lines 58-60
YearStage ==
    /\ stage = "text"
    /\ df' = IF "YEAR" \in cols
             THEN SetColumn(df, "YEAR", [i \in 1..Len(df) |-> YearCell(df[i]["YEAR"])])
             ELSE df
    /\ prev' = df
    /\ stage' = "year"
    /\ UNCHANGED <<pandas3, input, cols, dtype, rowid, cellVars, mainVars>>

\* lines 63-65
VotesStage ==
    /\ stage = "year"
    /\ df' = IF "VOTES" \in cols
             THEN SetColumn(df, "VOTES", [i \in 1..Len(df) |-> VotesCell(df[i]["VOTES"])])
             ELSE df
    /\ prev' = df
    /\ stage' = "votes"
    /\ UNCHANGED <<pandas3, input, cols, dtype, rowid, cellVars, mainVars>>

\* lines 68-70
GrossStage ==
    /\ stage = "votes"
    /\ df' = IF "Gross" \in cols
             THEN SetColumn(df, "Gross", [i \in 1..Len(df) |-> GrossCell(df[i]["Gross"])])
             ELSE df
    /\ prev' = df
    /\ stage' = "gross"
    /\ UNCHANGED <<pandas3, input, cols, dtype, rowid, cellVars, mainVars>>

\* lines 74-77
ImputeStage ==
    /\ stage = "gross"
    /\ df' = ImputeFrom(df, cols, 1)
    /\ prev' = df
    /\ stage' = "imputed"
    /\ UNCHANGED <<pandas3, input, cols, dtype, rowid, cellVars, mainVars>>

\* lines 80-89
GenreStage ==
    /\ stage = "imputed"
    /\ df' = IF "GENRE" \in cols THEN SetColumn(df, "GENRE", FillGenre(Column(df, "GENRE")))
             ELSE df
    /\ prev' = df
    /\ stage' = "genre"
    /\ UNCHANGED <<pandas3, input, cols, dtype, rowid, cellVars, mainVars>>

\* lines 92-96 (num_stars needs STARS, which no explored table has)
FeatureStage ==
    /\ stage = "genre"
    /\ IF "GENRE" \in cols
       THEN /\ df' = AddNumGenres(df, cols)
            /\ cols' = cols \cup {"num_genres"}
       ELSE UNCHANGED <<df, cols>>
    /\ prev' = df
    /\ stage' = "features"
    /\ UNCHANGED <<pandas3, input, dtype, rowid, cellVars, mainVars>>

\* lines 99-104
ClipStage ==
    /\ stage = "features"
    /\ IF "RunTime" \in cols
       THEN LET col == Column(df, "RunTime")
                new == ClipColumn(col, dtype["RunTime"])
            IN  /\ df' = SetColumn(df, "RunTime", new)
                /\ dtype' = IF new # col /\ \E i \in 1..Len(new) : IsNum(new[i]) /\ new[i].d # 1
                            THEN [dtype EXCEPT !["RunTime"] = "float64"]
                            ELSE dtype
       ELSE UNCHANGED <<df, dtype>>
    /\ prev' = df
    /\ stage' = "clipped"
    /\ UNCHANGED <<pandas3, input, cols, rowid, cellVars, mainVars>>

\* lines 107-121
ScaleStage ==
    /\ stage = "clipped"
    /\ df' = ScaleTable(df, cols)
    /\ dtype' = IF ValidCols(df, cols) = {} \/ ScaleRaises(df, cols) THEN dtype
                ELSE [c \in DOMAIN dtype |->
                        IF c \in ValidCols(df, cols) THEN "float64" ELSE dtype[c]]
    /\ prev' = df
    /\ stage' = "done"
    /\ UNCHANGED <<pandas3, input, cols, rowid, cellVars, mainVars>>

NextClean ==
    \/ Dedup
    \/ TextStage
    \/ YearStage
    \/ VotesStage
    \/ GrossStage
    \/ ImputeStage
    \/ GenreStage
    \/ FeatureStage
    \/ ClipStage
    \/ ScaleStage

SpecClean == InitClean /\ [][NextClean]_vars

---------------------------------------------------------------------------
(* Properties of clean_dataframe (SpecClean) *)

IsNumericCol(c) == \E k \in 1..Len(NumericCols) : NumericCols[k] = c

\* C9: the deduplication stage keeps exactly one row per distinct row
\* value, namely its first occurrence, keeps the survivors in their
\* original relative order, and removes nothing when applied again.
C9_Deduplication ==
    stage = "dedup" =>
        /\ Len(rowid) = Len(df)
        /\ \A i \in 1..Len(prev) : Cardinality({j \in 1..Len(df) : df[j] = prev[i]}) = 1
        /\ \A j \in 1..Len(df) :
            /\ rowid[j] \in 1..Len(prev)
            /\ df[j] = prev[rowid[j]]
            /\ \A m \in 1..(rowid[j] - 1) : prev[m] # df[j]
        /\ \A i, j \in 1..Len(df) : i < j => rowid[i] < rowid[j]
        /\ DropDuplicates(df) = df

\* C9 witness: a duplicate was dropped and two distinct rows survive
C9_Witness ==
    /\ stage = "dedup"
    /\ Len(df) = 2
    /\ Len(prev) = 3
    /\ prev[1] = prev[3]

\* C2 (as stated): after imputation every present numeric column has no
\* missing entry, unless it had no non-missing entry before, in which case
\* its number of missing entries is unchanged; for every input table.
C2_ImputationAsStated ==
    stage = "imputed" =>
        \A c \in cols : IsNumericCol(c) =>
            IF DropNA(Column(prev, c)) = <<>>
            THEN CountNA(Column(df, c)) = CountNA(Column(prev, c))
            ELSE CountNA(Column(df, c)) = 0

\* C2 (amended): a present numeric column whose non-missing cells are all
\* numbers has no missing entry after imputation, unless it had no
\* non-missing entry before; a column with no non-missing entry, or holding
\* a text that is no number, is left exactly as it was.
C2_ImputationNumericColumns ==
    stage = "imputed" =>
        \A c \in cols : IsNumericCol(c) =>
            IF DropNA(Column(prev, c)) = <<>> \/ HasText(Column(prev, c))
            THEN Column(df, c) = Column(prev, c)
            ELSE /\ CountNA(Column(df, c)) = 0
                 /\ \A i \in 1..Len(df) :
                        ~IsNA(prev[i][c]) => df[i][c] = prev[i][c]

\* C2 witness: a numeric column with a missing and a non-missing entry was
\* filled, next to a column that was left alone because it holds a text
C2_Witness ==
    /\ stage = "imputed"
    /\ \E c \in cols :
        /\ IsNumericCol(c)
        /\ ~HasText(Column(prev, c))
        /\ CountNA(Column(prev, c)) > 0
        /\ DropNA(Column(prev, c)) # <<>>
        /\ CountNA(Column(df, c)) = 0
    /\ \E c \in cols :
        /\ IsNumericCol(c)
        /\ HasText(Column(prev, c))
        /\ CountNA(Column(df, c)) > 0

\* the normalized GENRE texts of the rows that survive deduplication and
\* whose GENRE cell was not missing in the input
InputGenres ==
    LET kept == SelectSeq(rowid, LAMBDA r : ~IsNA(input[r]["GENRE"]))
    IN  [j \in 1..Len(kept) |-> NormalizeText(input[kept[j]]["GENRE"])]

MostFrequent(xs) ==
    {xs[i] : i \in {i \in 1..Len(xs) :
        \A j \in 1..Len(xs) :
            Cardinality({m \in 1..Len(xs) : xs[m] = xs[j]})
                <= Cardinality({m \in 1..Len(xs) : xs[m] = xs[i]})}}

\* C3 (as stated): after clean_dataframe a row whose GENRE cell was missing
\* in the input holds a most frequent non-missing GENRE value of the table,
\* or the text 'Unknown' when there is none; the other rows keep their
\* normalized value.
C3_GenreImputation ==
    (stage = "done" /\ "GENRE" \in cols) =>
        \A i \in 1..Len(df) :
            LET orig == input[rowid[i]]["GENRE"]
            IN  IF IsNA(orig)
                THEN IF InputGenres = <<>>
                     THEN df[i]["GENRE"] = Str(<<"U", "n", "k", "n", "o", "w", "n">>)
                     ELSE df[i]["GENRE"] \in MostFrequent(InputGenres)
                ELSE df[i]["GENRE"] = NormalizeText(orig)

IsMin(x, xs) == \A j \in 1..Len(xs) : ~Less(xs[j], x)

IsMax(x, xs) == \A j \in 1..Len(xs) : ~Less(x, xs[j])

\* C5 (as stated): whatever the other columns hold, a present numeric
\* column with a non-missing value is rescaled so that its minimum maps to
\* 0 and its maximum to 1 when its values are not all equal, and to one
\* constant when they are; an entirely missing column is left as it is.
C5_MinMaxScaling ==
    stage = "done" =>
        \A c \in cols : IsNumericCol(c) =>
            LET old == Column(prev, c)
                new == Column(df, c)
                xs == DropNA(old)
            IN  /\ xs = <<>> => new = old
                /\ (xs # <<>> /\ ~HasText(old)) =>
                     IF \E i, j \in 1..Len(xs) : xs[i] # xs[j]
                     THEN \A i \in 1..Len(old) :
                            /\ (IsNum(old[i]) /\ IsMin(old[i], xs)) => new[i] = Num(0, 1)
                            /\ (IsNum(old[i]) /\ IsMax(old[i], xs)) => new[i] = Num(1, 1)
                     ELSE \A i, j \in 1..Len(old) :
                            (IsNum(old[i]) /\ IsNum(old[j])) => new[i] = new[j]

\* C6 (as stated): when RunTime holds numbers, after the clipping stage no
\* value exceeds the 99th percentile of the non-missing values it had
\* before; the values above it equal it and all others are unchanged.
C6_OutlierClipping ==
    (stage = "clipped" /\ "RunTime" \in cols) =>
        LET old == Column(prev, "RunTime")
            new == Column(df, "RunTime")
        IN  (DropNA(old) # <<>> /\ ~HasText(old)) =>
                LET upper == Quantile99(DropNA(old))
                IN  \A i \in 1..Len(old) :
                        /\ IsNum(new[i]) => ~Less(upper, new[i])
                        /\ (IsNum(old[i]) /\ Less(upper, old[i])) => new[i] = upper
                        /\ ~(IsNum(old[i]) /\ Less(upper, old[i])) => new[i] = old[i]

---------------------------------------------------------------------------
(* Spec: main and process_file.  What clean_dataframe does to the table    *)
(* is SpecClean's subject; here a file is readable or not, and writing and *)
(* plotting succeed or fail as the environment decides.                    *)

FileNames ==
    {<<"a", ".", "C", "S", "V">>, <<"a", ".", "c", "s", "v">>, <<"n", ".", "t", "x", "t">>}

\* str.lower() on the letters in use
LowerChar(ch) ==
    CASE ch = "C" -> "c"
      [] ch = "S" -> "s"
      [] ch = "V" -> "v"
      [] OTHER -> ch

Lower(t) == [i \in 1..Len(t) |-> LowerChar(t[i])]

\* filename.lower().endswith('.csv')  (line 195)
IsCsvName(name) ==
    LET l == Lower(name)
    IN  Len(l) >= 4 /\ SubSeq(l, Len(l) - 3, Len(l)) = <<".", "c", "s", "v">>

\* os.path.splitext(os.path.basename(input_path))[0]  (line 161): the name
\* up to its last period, when that period is not the first character
Base(name) ==
    LET dots == {i \in 2..Len(name) : name[i] = "."}
    IN  IF dots = {} THEN name
        ELSE SubSeq(name, 1, (CHOOSE i \in dots : \A j \in dots : j <= i) - 1)

\* sorted(os.listdir(...))  (line 194)
RECURSIVE Sorted(_)
Sorted(names) ==
    IF names = {} THEN <<>>
    ELSE LET first == CHOOSE n \in names : \A m \in names : ~TextLess(m, n)
         IN  <<first>> \o Sorted(names \ {first})

\* datetime.now().strftime("%Y%m%d_%H%M%S")  (line 160): the clock counts
\* half seconds, the timestamp keeps the whole seconds
Timestamp(t) == t \div 2

\* os.path.join(cleaned_folder, f"{base}_cleaned_{timestamp}.csv")
OutputPath(name, t) == [base |-> Base(name), ts |-> Timestamp(t)]

\* the empty string process_file returns when the file cannot be read
NoPath == [base |-> <<>>, ts |-> 0 - 1]

\* process_file with pd.read_csv outside any try block: a read failure
\* propagates to main
process_file_unguarded(name, rd, wr, pl, t) ==
    IF ~rd
    THEN [name |-> name, read |-> FALSE, wrote |-> FALSE, plot |-> "none",
          path |-> NoPath, ret |-> NoPath, raised |-> TRUE]
    ELSE [name |-> name, read |-> TRUE, wrote |-> wr,
          plot |-> IF noPlot THEN "skipped" ELSE IF pl THEN "shown" ELSE "failed",
          path |-> OutputPath(name, t), ret |-> OutputPath(name, t), raised |-> FALSE]

\* lines 147-175: the outcome of one call.  rd: pd.read_csv succeeds,
\* wr: to_csv succeeds, pl: the plots render.
process_file(name, rd, wr, pl, t) ==
    IF ~rd
    THEN [name |-> name, read |-> FALSE, wrote |-> FALSE, plot |-> "none",
          path |-> NoPath, ret |-> NoPath, raised |-> FALSE]
    ELSE [name |-> name, read |-> TRUE, wrote |-> wr,
          plot |-> IF noPlot THEN "skipped" ELSE IF pl THEN "shown" ELSE "failed",
          path |-> OutputPath(name, t), ret |-> OutputPath(name, t), raised |-> FALSE]

Init ==
    /\ pandas3 \in BOOLEAN
    /\ folder \in SUBSET FileNames
    /\ readable \in [folder -> BOOLEAN]
    /\ noPlot \in BOOLEAN
    /\ now = 0
    /\ runs = 0
    /\ pc = "idle"
    /\ todo = <<>>
    /\ idx = 0
    /\ cleaned = {}
    /\ calls = <<>>
    /\ found = FALSE
    /\ warned = FALSE
    /\ escaped = FALSE
    /\ CellAtRest
    /\ CleanAtRest

\* the wall clock advances
Tick ==
    /\ now < MaxTime
    /\ now' = now + 1
    /\ UNCHANGED <<pandas3, cellVars, cleanVars, folder, readable, noPlot, runs, pc, todo,
                   idx, cleaned, calls, found, warned, escaped>>

\* lines 178-194: main starts (again) and lists the input folder
StartMain ==
    /\ pc \in {"idle", "done"}
    /\ runs < MaxRuns
    /\ runs' = runs + 1
    /\ todo' = Sorted(folder)
    /\ idx' = 1
    /\ found' = FALSE
    /\ warned' = FALSE
    /\ pc' = "loop"
    /\ UNCHANGED <<pandas3, cellVars, cleanVars, folder, readable, noPlot, now, cleaned,
                   calls, escaped>>

\* line 195, condition false: the name is passed over
SkipName ==
    /\ pc = "loop"
    /\ idx <= Len(todo)
    /\ ~IsCsvName(todo[idx])
    /\ idx' = idx + 1
    /\ UNCHANGED <<pandas3, cellVars, cleanVars, folder, readable, noPlot, now, runs, pc,
                   todo, cleaned, calls, found, warned, escaped>>

\* lines 195-198: one call of process_file
ProcessName ==
    /\ pc = "loop"
    /\ idx <= Len(todo)
    /\ IsCsvName(todo[idx])
    /\ \E wr \in BOOLEAN, pl \in BOOLEAN :
          LET r == process_file(todo[idx], readable[todo[idx]], wr, pl, now)
              k == Len(calls) + 1
          IN  /\ calls' = Append(calls, r @@ [run |-> runs])
              /\ cleaned' = IF r.wrote
                            THEN {f \in cleaned : f.path # r.path} \cup {[path |-> r.path, by |-> k]}
                            ELSE cleaned
              /\ escaped' = r.raised
              /\ pc' = IF r.raised THEN "crashed" ELSE pc
    /\ found' = TRUE
    /\ idx' = idx + 1
    /\ UNCHANGED <<pandas3, cellVars, cleanVars, folder, readable, noPlot, now, runs, todo,
                   warned>>

\* lines 200-201: the loop is over, main returns
MainReturn ==
    /\ pc = "loop"
    /\ idx > Len(todo)
    /\ warned' = ~found
    /\ pc' = "done"
    /\ UNCHANGED <<pandas3, cellVars, cleanVars, folder, readable, noPlot, now, runs, todo,
                   idx, cleaned, calls, found, escaped>>

Next ==
    \/ Tick
    \/ StartMain
    \/ SkipName
    \/ ProcessName
    \/ MainReturn

Spec == Init /\ [][Next]_vars

---------------------------------------------------------------------------
(* Properties of main and process_file (Spec) *)

\* the names process_file was called with during run r, in call order
RunNames(r) ==
    LET cs == SelectSeq(calls, LAMBDA c : c.run = r)
    IN  [i \in 1..Len(cs) |-> cs[i].name]

\* a sequence of names is the *.csv names of the folder, each once, ascending
IsCsvListing(ns) ==
    /\ {ns[i] : i \in 1..Len(ns)} = {n \in folder : IsCsvName(n)}
    /\ \A i, j \in 1..Len(ns) : i < j => TextLess(ns[i], ns[j])

\* call k left a file in the cleaned folder
HasOutput(k) == \E f \in cleaned : f.by = k

\* every finished run called process_file on each *.csv name once, in
\* sorted order, whatever failed on the way, and no exception escaped
BatchCompletes ==
    /\ ~escaped
    /\ pc # "crashed"
    /\ pc = "done" => \A r \in 1..runs : IsCsvListing(RunNames(r))
    /\ \A k \in 1..Len(calls) : ~calls[k].read => ~HasOutput(k)

\* C1 (as stated): every *.csv name is processed once in sorted order, no
\* failure stops the batch or escapes main, an unreadable file produces no
\* output file and every readable file produces a cleaned output.
C1_BatchIsolationAsStated ==
    /\ BatchCompletes
    /\ \A k \in 1..Len(calls) : calls[k].read => calls[k].wrote

\* C1 (amended): as above, but a readable file produces a cleaned output
\* only when writing it succeeds: a call whose write succeeded left its
\* file at its output path, unless a later call wrote the same path, and a
\* call whose write failed left no file.
C1_BatchIsolation ==
    /\ BatchCompletes
    /\ \A k \in 1..Len(calls) :
        /\ (calls[k].read /\ calls[k].wrote) =>
              \/ [path |-> calls[k].path, by |-> k] \in cleaned
              \/ \E j \in (k + 1)..Len(calls) :
                    calls[j].wrote /\ calls[j].path = calls[k].path
        /\ ~calls[k].wrote => ~HasOutput(k)

\* C1 witness: a run finished in which the first file could not be read,
\* and the file after it was cleaned and written although its plots failed
C1_Witness ==
    /\ pc = "done"
    /\ Len(calls) = 2
    /\ ~calls[1].read
    /\ calls[2].wrote
    /\ calls[2].plot = "failed"
    /\ HasOutput(2)

\* C4 (as stated): no two invocations of process_file write to the same
\* output path, so no written output is ever overwritten.
C4_NoOutputCollision ==
    \A i, j \in 1..Len(calls) :
        (i < j /\ calls[i].wrote /\ calls[j].wrote) => calls[i].path # calls[j].path

\* C10 (as stated): process_file returns an output path only when the
\* cleaned CSV was written to that path.
C10_PathReturnedOnlyWhenWritten ==
    \A k \in 1..Len(calls) : calls[k].ret # NoPath => calls[k].wrote

====
